---- MODULE Spec2Model ----
(***************************************************************************)
(* Chapter navigation of the story map (src/chapters/chapter-navigation.js, *)
(* the id-keyed controller).  The state is the persisted "chapterId" URL    *)
(* parameter, the autoplay timer handle, the browser's timer registry and   *)
(* the DOM surfaces the controller writes.  Every event handler is one      *)
(* action; an uncaught TypeError aborts the handler where it is raised.     *)
(* The older title-keyed module, whose start and stop functions await the  *)
(* icon loader, is modelled on the same page state further down.           *)
(***************************************************************************)
EXTENDS Integers, Sequences, FiniteSets, TLC

\* ------------------------------------------------------------------ bounds
\* Largest number of icon loads awaited at the same time.
MaxPending == 2
\* Largest number of chapters of the loaded story.
MaxChapters == 3
\* Number of setInterval handles the browser hands out in one page life.
MaxHandles == 2

\* ------------------------------------------------------- program constants
TIME_PER_CHAPTER == 3000
HIGHLIGHT_RADIUS == 250

\* ------------------------------------------------------- JavaScript values
\* null / a present value, as a sequence of length 0 or 1.
Null == <<>>
Some(x) == <<x>>
IsNull(o) == o = <<>>
Val(o) == o[1]

\* A JavaScript number: an integer or NaN.
Num(n) == [nan |-> FALSE, v |-> n]
NaN == [nan |-> TRUE, v |-> 0]
\* x + k for an integer literal k (NaN is absorbing).
NumAdd(x, k) == IF x.nan THEN NaN ELSE Num(x.v + k)
\* x < n, x >= n, x === n for an integer n (every comparison with NaN is false).
NumLt(x, n) == ~x.nan /\ x.v < n
NumGe(x, n) == ~x.nan /\ x.v >= n
NumEq(x, n) == ~x.nan /\ x.v = n

\* Strings are sequences of one-character strings.
DigitChars == <<"0", "1", "2", "3", "4", "5", "6", "7", "8", "9">>
IsDigit(c) == \E d \in 1..10 : DigitChars[d] = c
DigitValue(c) == (CHOOSE d \in 1..10 : DigitChars[d] = c) - 1

RECURSIVE DigitsToString(_)
DigitsToString(n) ==
  IF n < 10 THEN <<DigitChars[n + 1]>>
  ELSE DigitsToString(n \div 10) \o <<DigitChars[(n % 10) + 1]>>

\* String(n) for an integer n.
NumberToString(n) ==
  IF n < 0 THEN <<"-">> \o DigitsToString(-n) ELSE DigitsToString(n)

RECURSIVE DigitsValue(_)
DigitsValue(s) ==
  IF s = <<>> THEN 0
  ELSE 10 * DigitsValue(SubSeq(s, 1, Len(s) - 1)) + DigitValue(s[Len(s)])

AllDigits(s) == s # <<>> /\ \A k \in 1..Len(s) : IsDigit(s[k])

\* Number(s) for a string s: "" is 0, a signed decimal numeral is its value,
\* anything else is NaN.
StringToNumber(s) ==
  IF s = <<>> THEN Num(0)
  ELSE IF AllDigits(s) THEN Num(DigitsValue(s))
  ELSE IF s[1] = "-" /\ AllDigits(Tail(s)) THEN Num(-DigitsValue(Tail(s)))
  ELSE IF s[1] = "+" /\ AllDigits(Tail(s)) THEN Num(DigitsValue(Tail(s)))
  ELSE NaN

\* Number(v) for v a string or null: Number(null) is 0.
ToNumber(o) == IF IsNull(o) THEN Num(0) ELSE StringToNumber(Val(o))

\* A chapter id of the configuration: a JSON number or a JSON string.
NumberId(n) == [kind |-> "number", num |-> n, str |-> <<>>]
StringId(s) == [kind |-> "string", num |-> 0, str |-> s]
\* String(id), what URLSearchParams stores for the id.
IdToString(id) == IF id.kind = "number" THEN NumberToString(id.num) ELSE id.str
\* id === v for v a string or null (strict equality: a number equals no string).
StrictEqualsParam(id, o) == id.kind = "string" /\ ~IsNull(o) /\ id.str = Val(o)

\* ------------------------------------------------------------------ state
VARIABLES
  chapterIds,       \* story.chapters[j].id for j = 0..N-1, at position j+1
  param,            \* the "chapterId" URL parameter: Null or Some(string)
  intervalId,       \* the module's timer handle: Null or Some(handle)
  timers,           \* the browser's live setInterval registrations (handles)
  nextHandle,       \* the handle the next setInterval returns
  autoplayIcon,     \* autoplayButton.innerHTML: "markup", "play" or "pause"
  introActive,      \* introNavigation has class "active"
  detailActive,     \* detailNavigation has class "active"
  forwardDisabled,  \* forwardButton.disabled
  chapterIndexText, \* #chapter-index text: [shown, total] for "shown / total"
  selectedMarker,   \* argument of the last setSelectedMarker: Null or Some(j)
  highlight,        \* the custom radius shader: Null or Some([coords, radius])
  content,          \* what updateChapterContent rendered last
  camera,           \* the last performFlyTo command: Null or Some([coords, duration])
  error,            \* the last handler ended by an uncaught TypeError
  pc,               \* "loaded" (module evaluated) or "ready" (handlers registered)
  lastEvent,        \* the event whose handler ran last
  before,           \* the state that handler started in
  pending           \* async functions suspended at their await of loadSvg()

vars == <<chapterIds, param, intervalId, timers, nextHandle, autoplayIcon,
          introActive, detailActive, forwardDisabled, chapterIndexText,
          selectedMarker, highlight, content, camera, error, pc, lastEvent,
          before, pending>>

\* story.chapters.length
ChapterCount == Len(chapterIds)
\* The valid chapter indices 0..N-1.
ChapterIndices == 0..(ChapterCount - 1)
\* story.chapters[j].id
ChapterId(j) == chapterIds[j + 1]
\* story.chapters[j].coords and story.properties.coords
ChapterCoords(j) == [place |-> "chapter", index |-> j]
StoryCoords == [place |-> "story", index |-> -1]

\* The id assignments of the configurations considered: ids that are the
\* chapter's position as a JSON string, as a JSON number, and numbers counted
\* from one.
StringIndexIds(n) == [k \in 1..n |-> StringId(NumberToString(k - 1))]
NumberIndexIds(n) == [k \in 1..n |-> NumberId(k - 1)]
NumberFromOneIds(n) == [k \in 1..n |-> NumberId(k)]
StoryConfigs ==
  UNION {{StringIndexIds(n), NumberIndexIds(n), NumberFromOneIds(n)} :
         n \in 1..MaxChapters}

\* The values of the chapterId parameter a page can be opened with.
InitialParams ==
  {Null, Some(<<>>), Some(<<"a">>)}
    \cup {Some(NumberToString(n)) : n \in (-2)..(MaxChapters + 1)}

\* The mutable part of the state, as the record the functions transform.
Cur ==
  [param |-> param, intervalId |-> intervalId, timers |-> timers,
   nextHandle |-> nextHandle, autoplayIcon |-> autoplayIcon,
   introActive |-> introActive, detailActive |-> detailActive,
   forwardDisabled |-> forwardDisabled, chapterIndexText |-> chapterIndexText,
   selectedMarker |-> selectedMarker, highlight |-> highlight,
   content |-> content, camera |-> camera, thrown |-> FALSE]

\* The state a handler leaves behind.
Commit(s) ==
  /\ param' = s.param
  /\ intervalId' = s.intervalId
  /\ timers' = s.timers
  /\ nextHandle' = s.nextHandle
  /\ autoplayIcon' = s.autoplayIcon
  /\ introActive' = s.introActive
  /\ detailActive' = s.detailActive
  /\ forwardDisabled' = s.forwardDisabled
  /\ chapterIndexText' = s.chapterIndexText
  /\ selectedMarker' = s.selectedMarker
  /\ highlight' = s.highlight
  /\ content' = s.content
  /\ camera' = s.camera
  /\ error' = s.thrown

\* No async function is suspended.
NoPending == [start |-> 0, stop |-> 0]

\* The document and module state right after the module is evaluated.
FreshPage(ids, p) ==
  /\ chapterIds = ids
  /\ param = p
  /\ intervalId = Null
  /\ timers = {}
  /\ nextHandle = 1
  /\ autoplayIcon = "markup"
  /\ introActive = FALSE
  /\ detailActive = FALSE
  /\ forwardDisabled = FALSE
  /\ chapterIndexText = [shown |-> NaN, total |-> 0]
  /\ selectedMarker = Null
  /\ highlight = Null
  /\ content = [source |-> "markup", index |-> -1, isIntro |-> TRUE]
  /\ camera = Null
  /\ error = FALSE
  /\ pc = "loaded"
  /\ lastEvent = "load"
  /\ before = Cur
  /\ pending = NoPending

Init == \E ids \in StoryConfigs : \E p \in InitialParams : FreshPage(ids, p)

\* ------------------------------------------------------------- functions
\* getParams().get("chapterId"): the parameter's string, or null.
GetParam(s) == s.param
\* setParams("chapterId", v): stores the string, or clears the parameter for null.
SetParams(s, v) == [s EXCEPT !.param = v]

\* getCurrentChapterIndex(): Number(params.get("chapterId")).
GetCurrentChapterIndex(s) == ToNumber(GetParam(s))

\* story.chapters.find((chapter) => chapter.id === chapterParam): the index of
\* the first chapter whose id is strictly equal to the parameter, or null.
FindChapter(s) ==
  LET hits == {j \in ChapterIndices : StrictEqualsParam(ChapterId(j), GetParam(s))}
  IN IF hits = {} THEN Null
     ELSE Some(CHOOSE j \in hits : \A k \in hits : j <= k)

\* activateNavigationElement(navName)
ActivateNavigationElement(s, navName) ==
  [s EXCEPT !.introActive = (navName = "intro"),
            !.detailActive = (navName = "details")]

\* updateDetailsNavigation()
UpdateDetailsNavigation(s) ==
  LET chapterIndex == NumAdd(GetCurrentChapterIndex(s), 1)
  IN [s EXCEPT !.chapterIndexText = [shown |-> chapterIndex, total |-> ChapterCount],
               !.forwardDisabled = NumEq(chapterIndex, ChapterCount)]

\* updateChapterIndexAndNavigation()
UpdateChapterIndexAndNavigation(s) ==
  LET chapterIndex == GetCurrentChapterIndex(s)
  IN [s EXCEPT !.chapterIndexText =
                 [shown |-> NumAdd(chapterIndex, 1), total |-> ChapterCount],
               !.forwardDisabled = NumEq(NumAdd(chapterIndex, 1), ChapterCount)]

\* updateChapterContent(chapterData, isIntro): source is "properties" for
\* story.properties and "chapter" with its index for a chapter record.
UpdateChapterContent(s, source, index, isIntro) ==
  LET s1 == UpdateDetailsNavigation(s)
      s2 == [s1 EXCEPT !.content =
                         [source |-> source, index |-> index, isIntro |-> isIntro]]
  IN UpdateChapterIndexAndNavigation(s2)

\* clearTimeout(id): cancels the registration with that handle; no effect for null.
ClearTimeout(s, id) ==
  IF IsNull(id) THEN s ELSE [s EXCEPT !.timers = @ \ {Val(id)}]

\* stopAutoplay() that flips the icon instead of setting the play icon.
StopAutoplay_FlipsIcon(s) ==
  LET s1 == [s EXCEPT !.autoplayIcon = IF @ = "play" THEN "pause" ELSE "play"]
      s2 == ClearTimeout(s1, s1.intervalId)
  IN [s2 EXCEPT !.intervalId = Null]

\* stopAutoplay() that forgets clearTimeout and only drops the handle.
StopAutoplay_KeepsTimer(s) ==
  [s EXCEPT !.autoplayIcon = "play", !.intervalId = Null]

\* stopAutoplay()
StopAutoplay(s) ==
  LET s1 == [s EXCEPT !.autoplayIcon = "play"]
      s2 == ClearTimeout(s1, s1.intervalId)
  IN [s2 EXCEPT !.intervalId = Null]

\* resetToIntro() that leaves the custom radius shader in place.
ResetToIntro_KeepsHighlight(s) ==
  LET s1 == SetParams(s, Null)
      s2 == [s1 EXCEPT !.selectedMarker = Null]
      s3 == UpdateChapterContent(s2, "properties", -1, TRUE)
      s4 == ActivateNavigationElement(s3, "intro")
  IN [s4 EXCEPT !.camera = Some([coords |-> StoryCoords, duration |-> 1])]

\* resetToIntro()
ResetToIntro(s) ==
  LET s1 == SetParams(s, Null)
      s2 == [s1 EXCEPT !.selectedMarker = Null]
      s3 == UpdateChapterContent(s2, "properties", -1, TRUE)
      s4 == ActivateNavigationElement(s3, "intro")
      s5 == [s4 EXCEPT !.highlight = Null]
  IN [s5 EXCEPT !.camera = Some([coords |-> StoryCoords, duration |-> 1])]

\* updateChapter(chapterIndex) that renders the content before it writes the
\* chapter parameter.
UpdateChapter_RendersBeforeWrite(s, chapterIndex) ==
  IF chapterIndex \notin ChapterIndices THEN [s EXCEPT !.thrown = TRUE]
  ELSE
    LET coords == ChapterCoords(chapterIndex)
        s1 == [s EXCEPT !.selectedMarker = Some(chapterIndex)]
        s2 == UpdateChapterContent(s1, "chapter", chapterIndex, FALSE)
        s3 == SetParams(s2, Some(IdToString(ChapterId(chapterIndex))))
        s4 == ActivateNavigationElement(s3, "details")
        s5 == [s4 EXCEPT !.highlight =
                           Some([coords |-> coords, radius |-> HIGHLIGHT_RADIUS])]
    IN [s5 EXCEPT !.camera = Some([coords |-> coords, duration |-> 2])]

\* updateChapter(chapterIndex): destructuring story.chapters[chapterIndex]
\* throws a TypeError when the index is outside 0..N-1.
UpdateChapter(s, chapterIndex) ==
  IF chapterIndex \notin ChapterIndices THEN [s EXCEPT !.thrown = TRUE]
  ELSE
    LET coords == ChapterCoords(chapterIndex)
        s1 == [s EXCEPT !.selectedMarker = Some(chapterIndex)]
        s2 == SetParams(s1, Some(IdToString(ChapterId(chapterIndex))))
        s3 == UpdateChapterContent(s2, "chapter", chapterIndex, FALSE)
        s4 == ActivateNavigationElement(s3, "details")
        s5 == [s4 EXCEPT !.highlight =
                           Some([coords |-> coords, radius |-> HIGHLIGHT_RADIUS])]
    IN [s5 EXCEPT !.camera = Some([coords |-> coords, duration |-> 2])]

\* setPreviousChapter() that clamps at the first chapter instead of resetting.
SetPreviousChapter_Clamps(s) ==
  LET newChapterIndex == NumAdd(GetCurrentChapterIndex(s), -1)
  IN IF NumGe(newChapterIndex, 0) THEN UpdateChapter(s, newChapterIndex.v)
     ELSE UpdateChapter(s, 0)

\* setPreviousChapter()
SetPreviousChapter(s) ==
  LET newChapterIndex == NumAdd(GetCurrentChapterIndex(s), -1)
  IN IF NumGe(newChapterIndex, 0) THEN UpdateChapter(s, newChapterIndex.v)
     ELSE ResetToIntro(s)

\* setNextChapter() that wraps to the first chapter past the end.
SetNextChapter_Wraps(s) ==
  LET newChapterIndex == NumAdd(GetCurrentChapterIndex(s), 1)
  IN IF NumLt(newChapterIndex, ChapterCount) THEN UpdateChapter(s, newChapterIndex.v)
     ELSE UpdateChapter(s, 0)

\* setNextChapter()
SetNextChapter(s) ==
  LET newChapterIndex == NumAdd(GetCurrentChapterIndex(s), 1)
  IN IF NumLt(newChapterIndex, ChapterCount) THEN UpdateChapter(s, newChapterIndex.v)
     ELSE s

\* setNextAutoplayStep() without the stop at the last chapter.
SetNextAutoplayStep_NeverStops(s) == SetNextChapter(s)

\* setNextAutoplayStep()
SetNextAutoplayStep(s) ==
  LET s1 == SetNextChapter(s)
  IN IF s1.thrown THEN s1
     ELSE IF NumEq(GetCurrentChapterIndex(s1), ChapterCount - 1) THEN StopAutoplay(s1)
     ELSE s1

\* setInterval(setNextAutoplayStep, TIME_PER_CHAPTER): registers a repeating
\* timer and returns its (positive) handle.
SetInterval(s) ==
  [s EXCEPT !.timers = @ \cup {s.nextHandle},
            !.intervalId = Some(s.nextHandle),
            !.nextHandle = @ + 1]

\* autoplayClickHandler() that also steps to the next chapter when it starts.
AutoplayClickHandler_StepsOnStart(s) ==
  IF ~IsNull(s.intervalId) THEN StopAutoplay(s)
  ELSE [SetInterval(SetNextChapter(s)) EXCEPT !.autoplayIcon = "pause"]

\* autoplayClickHandler() that starts the timer without swapping the icon.
AutoplayClickHandler_KeepsIcon(s) ==
  IF ~IsNull(s.intervalId) THEN StopAutoplay(s)
  ELSE SetInterval(s)

\* autoplayClickHandler()
AutoplayClickHandler(s) ==
  IF ~IsNull(s.intervalId) THEN StopAutoplay(s)
  ELSE [SetInterval(s) EXCEPT !.autoplayIcon = "pause"]

\* The start button's click listener.
StartClickHandler(s) ==
  UpdateChapter(ActivateNavigationElement(s, "details"), 0)

\* The forward button's click listener: a TypeError thrown by setNextChapter()
\* aborts it before stopAutoplay().
ForwardClickHandler(s) ==
  LET s1 == SetNextChapter(s)
  IN IF s1.thrown THEN s1 ELSE StopAutoplay(s1)

\* The back button's click listener without its stopAutoplay().
BackClickHandler_NoStop(s) == SetPreviousChapter(s)

\* The back button's click listener: a TypeError thrown by setPreviousChapter()
\* aborts it before stopAutoplay().
BackClickHandler(s) ==
  LET s1 == SetPreviousChapter(s)
  IN IF s1.thrown THEN s1 ELSE StopAutoplay(s1)

\* The body of initChapterNavigation() after the listeners are registered.
InitChapterContent(s) ==
  LET chapterData == FindChapter(s)
  IN IF ~IsNull(chapterData)
     THEN UpdateChapterContent(ActivateNavigationElement(s, "details"),
                               "chapter", Val(chapterData), FALSE)
     ELSE UpdateChapterContent(ActivateNavigationElement(s, "intro"),
                               "properties", -1, TRUE)

\* ---------------------------------------------------------------- actions
Handled(event) ==
  /\ lastEvent' = event
  /\ before' = Cur
  /\ UNCHANGED <<chapterIds, pending>>

\* main() calls initChapterNavigation() once per page load.
InitChapterNavigation ==
  /\ pc = "loaded"
  /\ Commit(InitChapterContent(Cur))
  /\ pc' = "ready"
  /\ Handled("init")

StartClick ==
  /\ pc = "ready"
  /\ Commit(StartClickHandler(Cur))
  /\ Handled("start")
  /\ UNCHANGED pc

\* A disabled button dispatches no click event.
ForwardClick ==
  /\ pc = "ready"
  /\ ~forwardDisabled
  /\ Commit(ForwardClickHandler(Cur))
  /\ Handled("forward")
  /\ UNCHANGED pc

BackClick ==
  /\ pc = "ready"
  /\ Commit(BackClickHandler(Cur))
  /\ Handled("back")
  /\ UNCHANGED pc

AutoplayClick ==
  /\ pc = "ready"
  /\ ~IsNull(intervalId) \/ nextHandle <= MaxHandles
  /\ Commit(AutoplayClickHandler(Cur))
  /\ Handled("autoplay")
  /\ UNCHANGED pc

\* A live repeating timer fires its callback.
TimerTick ==
  /\ \E h \in timers : Commit(SetNextAutoplayStep(Cur))
  /\ Handled("tick")
  /\ UNCHANGED pc

\* Another module calls the exported updateChapter with a valid index.
CallUpdateChapter ==
  /\ pc = "ready"
  /\ \E j \in ChapterIndices : Commit(UpdateChapter(Cur, j))
  /\ Handled("updateChapter")
  /\ UNCHANGED pc

\* Another module calls the exported resetToIntro.
CallResetToIntro ==
  /\ pc = "ready"
  /\ Commit(ResetToIntro(Cur))
  /\ Handled("resetToIntro")
  /\ UNCHANGED pc

\* The visitor reloads the page: the URL is kept, the document and the module
\* state start afresh and every timer of the old page is gone.
Reload ==
  /\ pc = "ready"
  /\ intervalId' = Null
  /\ timers' = {}
  /\ nextHandle' = 1
  /\ autoplayIcon' = "markup"
  /\ introActive' = FALSE
  /\ detailActive' = FALSE
  /\ forwardDisabled' = FALSE
  /\ chapterIndexText' = [shown |-> NaN, total |-> 0]
  /\ selectedMarker' = Null
  /\ highlight' = Null
  /\ content' = [source |-> "markup", index |-> -1, isIntro |-> TRUE]
  /\ camera' = Null
  /\ error' = FALSE
  /\ pc' = "loaded"
  /\ lastEvent' = "load"
  /\ UNCHANGED <<chapterIds, param, pending>>
  /\ before' = Cur'

Next ==
  \/ InitChapterNavigation
  \/ StartClick
  \/ ForwardClick
  \/ BackClick
  \/ AutoplayClick
  \/ TimerTick
  \/ CallUpdateChapter
  \/ CallResetToIntro
  \/ Reload

Spec == Init /\ [][Next]_vars

\* The controls as a visitor reaches them when only the active pane's buttons
\* can be clicked: start in the intro pane; forward, back and autoplay in the
\* details pane.
StartClickInPane == introActive /\ StartClick
ForwardClickInPane == detailActive /\ ForwardClick
BackClickInPane == detailActive /\ BackClick
AutoplayClickInPane == detailActive /\ AutoplayClick

NextInPane ==
  \/ InitChapterNavigation
  \/ StartClickInPane
  \/ ForwardClickInPane
  \/ BackClickInPane
  \/ AutoplayClickInPane
  \/ TimerTick

SpecInPane == Init /\ [][NextInPane]_vars

\* Autoplay left alone: the visitor (and the other modules) act only while no
\* timer is live; a live repeating timer keeps firing, so its ticks are
\* weakly fair.
UserInput ==
  \/ InitChapterNavigation
  \/ StartClick
  \/ ForwardClick
  \/ BackClick
  \/ AutoplayClick
  \/ CallUpdateChapter
  \/ CallResetToIntro
  \/ Reload
UserInputWhileIdle == timers = {} /\ UserInput

NextUnattended ==
  \/ UserInputWhileIdle
  \/ TimerTick

SpecUnattended == Init /\ [][NextUnattended]_vars /\ WF_vars(TimerTick)

\* ------------------------------------------- the title-keyed controller
\* The older chapter-navigation module, keyed by the "chapter" parameter that
\* holds a chapter title.  It writes the same page; its stopProgression() and
\* startStoryProgression() are async and suspend at `await loadSvg(...)`, so
\* each call leaves a continuation that runs when its icon has loaded.

\* story.chapters[j].title: titles are taken distinct.
ChapterTitle(j) == <<"t">> \o NumberToString(j)

\* The values of the chapter parameter a page can be opened with.
TitleParams(n) ==
  {Null, Some(<<"x">>)} \cup {Some(ChapterTitle(j)) : j \in 0..(n - 1)}

\* The state the title-keyed functions transform.
TitleCur == Cur @@ [pending |-> pending]

\* Continuations suspended at an await.
PendingCount(s) == s.pending.start + s.pending.stop

\* getCurrentChapterIndex(): findIndex of the chapter whose title is the
\* parameter, -1 when there is none.
TitleGetCurrentChapterIndex(s) ==
  LET hits == {j \in ChapterIndices : GetParam(s) = Some(ChapterTitle(j))}
  IN IF hits = {} THEN -1 ELSE CHOOSE j \in hits : \A k \in hits : j <= k

\* toggleNavigationElements(chapterParam)
ToggleNavigationElements(s, chapterParam) ==
  [s EXCEPT !.introActive = ~chapterParam, !.detailActive = chapterParam]

\* updateChapterContent(chapterData, isIntro) of the title-keyed module.
TitleUpdateChapterContent(s, source, index, isIntro) ==
  LET chapterIndex == TitleGetCurrentChapterIndex(s)
  IN [s EXCEPT !.content = [source |-> source, index |-> index, isIntro |-> isIntro],
               !.chapterIndexText =
                 [shown |-> Num(chapterIndex + 1), total |-> ChapterCount],
               !.forwardDisabled = (chapterIndex + 1 = ChapterCount)]

\* updateChapter(chapterIndex) of the title-keyed module.
TitleUpdateChapter(s, chapterIndex) ==
  LET coords == ChapterCoords(chapterIndex)
      s1 == SetParams(s, Some(ChapterTitle(chapterIndex)))
      s2 == TitleUpdateChapterContent(s1, "chapter", chapterIndex, FALSE)
  IN [s2 EXCEPT !.camera = Some([coords |-> coords, duration |-> 2])]

\* resetToIntro() of the title-keyed module.
TitleResetToIntro(s) ==
  LET s1 == SetParams(s, Null)
      s2 == TitleUpdateChapterContent(s1, "properties", -1, TRUE)
      s3 == ToggleNavigationElements(s2, FALSE)
  IN [s3 EXCEPT !.camera = Some([coords |-> StoryCoords, duration |-> 1])]

\* setPreviousChapter() of the title-keyed module.
TitleSetPreviousChapter(s) ==
  LET newChapterIndex == TitleGetCurrentChapterIndex(s) - 1
  IN IF newChapterIndex >= 0 THEN TitleUpdateChapter(s, newChapterIndex)
     ELSE TitleResetToIntro(s)

\* setNextChapter() of the title-keyed module.
TitleSetNextChapter(s) ==
  LET newChapterIndex == TitleGetCurrentChapterIndex(s) + 1
  IN IF newChapterIndex < ChapterCount THEN TitleUpdateChapter(s, newChapterIndex)
     ELSE s

\* stopProgression(), up to its await: the icon load is requested and the
\* rest of the function is suspended.
StopProgression(s) == [s EXCEPT !.pending.stop = @ + 1]

\* stopProgression(), from its await on.
StopProgressionResumed(s) ==
  LET s1 == [s EXCEPT !.pending.stop = @ - 1, !.autoplayIcon = "play"]
      s2 == ClearTimeout(s1, s1.intervalId)
  IN [s2 EXCEPT !.intervalId = Null]

\* progress()
Progress(s) ==
  LET s1 == TitleSetNextChapter(s)
  IN IF TitleGetCurrentChapterIndex(s1) = ChapterCount - 1
     THEN StopProgression(s1)
     ELSE s1

\* startStoryProgression(), up to its await.
StartStoryProgression(s) == [s EXCEPT !.pending.start = @ + 1]

\* startStoryProgression(), from its await on, that registers the interval
\* without looking at the handle.
StartStoryProgressionResumed_AlwaysStarts(s) ==
  LET s1 == [s EXCEPT !.pending.start = @ - 1]
  IN [SetInterval(s1) EXCEPT !.autoplayIcon = "pause"]

\* startStoryProgression(), from its await on: the handle is read only now.
\* A handle is a positive number, so it is truthy exactly when it is not null.
StartStoryProgressionResumed(s) ==
  LET s1 == [s EXCEPT !.pending.start = @ - 1]
  IN IF ~IsNull(s1.intervalId) THEN StopProgression(s1)
     ELSE [SetInterval(s1) EXCEPT !.autoplayIcon = "pause"]

\* The start button's listener of the title-keyed module.
TitleStartClickHandler(s) ==
  TitleUpdateChapter(ToggleNavigationElements(s, TRUE), 0)

\* The forward button's listener of the title-keyed module.
TitleForwardClickHandler(s) == StopProgression(TitleSetNextChapter(s))

\* The back button's listener of the title-keyed module.
TitleBackClickHandler(s) == StopProgression(TitleSetPreviousChapter(s))

\* initChapterNavigation() of the title-keyed module, after the listeners.
TitleInitChapterContent(s) ==
  LET chapterData == TitleGetCurrentChapterIndex(s)
  IN IF chapterData >= 0
     THEN TitleUpdateChapterContent(ToggleNavigationElements(s, TRUE),
                                    "chapter", chapterData, FALSE)
     ELSE TitleUpdateChapterContent(ToggleNavigationElements(s, FALSE),
                                    "properties", -1, TRUE)

\* What a listener, callback or continuation of the title-keyed module leaves
\* behind; at most MaxPending icon loads are awaited at a time.
TitleHandled(s, event) ==
  /\ PendingCount(s) <= MaxPending
  /\ Commit(s)
  /\ pending' = s.pending
  /\ lastEvent' = event
  /\ before' = TitleCur
  /\ UNCHANGED chapterIds

TitleInitChapterNavigation ==
  /\ pc = "loaded"
  /\ TitleHandled(TitleInitChapterContent(TitleCur), "init")
  /\ pc' = "ready"

TitleStartClick ==
  /\ pc = "ready"
  /\ TitleHandled(TitleStartClickHandler(TitleCur), "start")
  /\ UNCHANGED pc

\* A disabled button dispatches no click event.
TitleForwardClick ==
  /\ pc = "ready"
  /\ ~forwardDisabled
  /\ TitleHandled(TitleForwardClickHandler(TitleCur), "forward")
  /\ UNCHANGED pc

TitleBackClick ==
  /\ pc = "ready"
  /\ TitleHandled(TitleBackClickHandler(TitleCur), "back")
  /\ UNCHANGED pc

PlayClick ==
  /\ pc = "ready"
  /\ TitleHandled(StartStoryProgression(TitleCur), "play")
  /\ UNCHANGED pc

\* The pause icon awaited by one suspended startStoryProgression() has loaded.
StartIconLoaded ==
  /\ pending.start > 0
  /\ ~IsNull(intervalId) \/ nextHandle <= MaxHandles
  /\ TitleHandled(StartStoryProgressionResumed(TitleCur), "startIconLoaded")
  /\ UNCHANGED pc

\* The play icon awaited by one suspended stopProgression() has loaded.
StopIconLoaded ==
  /\ pending.stop > 0
  /\ TitleHandled(StopProgressionResumed(TitleCur), "stopIconLoaded")
  /\ UNCHANGED pc

\* A live repeating timer fires progress().
ProgressTick ==
  /\ timers # {}
  /\ TitleHandled(Progress(TitleCur), "tick")
  /\ UNCHANGED pc

InitTitle ==
  \E n \in 1..MaxChapters : \E p \in TitleParams(n) :
    FreshPage(StringIndexIds(n), p)

NextTitle ==
  \/ TitleInitChapterNavigation
  \/ TitleStartClick
  \/ TitleForwardClick
  \/ TitleBackClick
  \/ PlayClick
  \/ StartIconLoaded
  \/ StopIconLoaded
  \/ ProgressTick

SpecTitle == InitTitle /\ [][NextTitle]_vars

\* ----------------------------------------------------------------- claims
\* What the last handler saw and what it left.
CurrentIndex == GetCurrentChapterIndex(Cur)
IndexBefore == GetCurrentChapterIndex(before)
LastIndex == ChapterCount - 1
\* The parameter value updateChapter(j) writes.
Written(j) == Some(IdToString(ChapterId(j)))
\* The parameter names a chapter of the story.
Resolves(p) == \E j \in ChapterIndices : p = Written(j)
\* No timer registration is left.
NoTimer == IsNull(intervalId) /\ timers = {}
\* Chapter j is the one rendered and selected.
ShowsChapter(j) ==
  /\ content = [source |-> "chapter", index |-> j, isIntro |-> FALSE]
  /\ selectedMarker = Some(j)

\* C1: after updateChapter(i) for a valid index i (a direct call, or the start
\* button's updateChapter(0)), getCurrentChapterIndex() returns i, whatever
\* the state was before.
C1_GoToChapterReadsBack ==
  (lastEvent \in {"updateChapter", "start"} /\ ~IsNull(selectedMarker))
    => NumEq(CurrentIndex, Val(selectedMarker))

\* C2: when the persisted parameter is absent or names no chapter, forward,
\* back, timer tick and initialize all complete without an error, and a
\* retreat ends in intro state.
C2_UnresolvedParamIsIntro ==
  (lastEvent \in {"init", "forward", "back", "tick"} /\ ~Resolves(before.param))
    => /\ ~error
       /\ lastEvent = "back" => IsNull(param)

\* C3: setNextChapter at current index chapterCount-1 (forward click or timer
\* tick) leaves the parameter and the current index unchanged and throws nothing.
C3_AdvanceAtLastIsNoOp ==
  (lastEvent \in {"forward", "tick"} /\ NumEq(IndexBefore, LastIndex))
    => /\ param = before.param
       /\ NumEq(CurrentIndex, LastIndex)
       /\ content = before.content
       /\ ~error

\* C3 witness: a timer tick ran setNextChapter at the last index.
C3_Witness ==
  /\ lastEvent = "tick"
  /\ NumEq(IndexBefore, LastIndex)
  /\ ~IsNull(before.param)
  /\ ChapterCount > 1

C4_WitnessStepBack ==
  /\ lastEvent = "back"
  /\ NumEq(IndexBefore, 2)
  /\ ShowsChapter(1)

\* C5: once a forward or back click handler has run, the timer handle is null
\* and no timer is left to tick, whether or not autoplay was running.
C5_ManualClickStopsAutoplay ==
  lastEvent \in {"forward", "back"} => NoTimer

C7_AtMostOneTimer ==
  /\ Cardinality(timers) <= 1
  /\ Cardinality(timers) = 1 <=> ~IsNull(intervalId)
  /\ ~IsNull(intervalId) => timers = {Val(intervalId)}

\* C7 witness: autoplay runs on its second timer, the first one was cancelled.
C7_Witness ==
  /\ ~IsNull(intervalId)
  /\ Val(intervalId) = 2
  /\ timers = {2}

\* C8: once rendered, the forward button is disabled exactly when a chapter is
\* current and its index is chapterCount-1; in intro state it is enabled.
C8_ForwardDisabledIffLast ==
  pc = "ready" =>
    (forwardDisabled <=> (~IsNull(param) /\ NumEq(CurrentIndex, LastIndex)))

\* C9: initialize() with the parameter as updateChapter(i) wrote it enters
\* detail state showing chapter i with current index i; with an absent or
\* unmatched parameter it enters intro state.
C9_InitializeReconstructs ==
  lastEvent = "init" =>
    /\ \A i \in ChapterIndices :
         param = Written(i) =>
           /\ detailActive /\ ~introActive
           /\ content = [source |-> "chapter", index |-> i, isIntro |-> FALSE]
           /\ NumEq(CurrentIndex, i)
    /\ ~Resolves(param) => (introActive /\ ~detailActive /\ content.isIntro)

\* C10: once initialized, exactly one pane is active, and it is the details
\* pane exactly when the parameter names a chapter.
C10_OnePaneMatchesState ==
  pc = "ready" =>
    /\ introActive # detailActive
    /\ detailActive <=> Resolves(param)

\* C11: resetToIntro(), called directly or by the back click that falls
\* through, leaves the parameter cleared, no marker selected, no highlight,
\* the intro pane active and the camera flown to the story's overview.
C11_ResetToIntroEffects ==
  (\/ lastEvent = "resetToIntro"
   \/ lastEvent = "back" /\ ~NumGe(NumAdd(IndexBefore, -1), 0))
    => /\ IsNull(param)
       /\ selectedMarker = Null
       /\ highlight = Null
       /\ introActive /\ ~detailActive
       /\ content = [source |-> "properties", index |-> -1, isIntro |-> TRUE]
       /\ camera = Some([coords |-> StoryCoords, duration |-> 1])
       /\ ~error

\* C11 witness: resetToIntro() ran in detail state with a marker and a highlight.
C11_Witness ==
  /\ lastEvent = "resetToIntro"
  /\ before.detailActive
  /\ ~IsNull(before.selectedMarker)
  /\ ~IsNull(before.highlight)
  /\ ~IsNull(before.param)
  /\ highlight = Null

C13_ToggleKeepsNavigation ==
  lastEvent = "autoplay" =>
    /\ ~error
    /\ [Cur EXCEPT !.intervalId = before.intervalId, !.timers = before.timers,
                   !.nextHandle = before.nextHandle,
                   !.autoplayIcon = before.autoplayIcon] = before

\* C13 witness: autoplay was started in detail state at a chapter.
C13_Witness ==
  /\ lastEvent = "autoplay"
  /\ IsNull(before.intervalId)
  /\ ~IsNull(intervalId)
  /\ detailActive
  /\ ~IsNull(param)

\* C15: stopAutoplay() with no live timer changes nothing but the icon, which
\* becomes the play icon, and stopAutoplay() twice equals stopAutoplay() once.
C15_StopIsIdempotent ==
  /\ StopAutoplay(StopAutoplay(Cur)) = StopAutoplay(Cur)
  /\ IsNull(StopAutoplay(Cur).intervalId)
  /\ StopAutoplay(Cur).autoplayIcon = "play"
  /\ (IsNull(intervalId) /\ timers = {})
       => StopAutoplay(Cur) = [Cur EXCEPT !.autoplayIcon = "play"]

\* C15 witness: a click stopped autoplay when it was already stopped.
C15_Witness ==
  /\ lastEvent \in {"forward", "back"}
  /\ ~error
  /\ IsNull(before.intervalId)
  /\ before.autoplayIcon = "play"
  /\ autoplayIcon = "play"
  /\ NoTimer

\* C16: once initialized, in detail state showing chapter i a highlight with
\* the fixed radius lies at chapter i's coordinates, and in intro state there
\* is no highlight.
C16_HighlightTracksState ==
  pc = "ready" =>
    /\ \A i \in ChapterIndices :
         (detailActive /\ content = [source |-> "chapter", index |-> i, isIntro |-> FALSE])
           => highlight = Some([coords |-> ChapterCoords(i), radius |-> HIGHLIGHT_RADIUS])
    /\ introActive => highlight = Null

\* C18: a forward step (forward click or timer tick) leaves the chapter
\* unchanged, or moves from current index i to chapter i+1, or moves from intro
\* state (no parameter) to chapter 0.
C18_ForwardNeverSkips ==
  (lastEvent \in {"forward", "tick"} /\ ~error) =>
    \/ param = before.param /\ content = before.content
    \/ IsNull(before.param) /\ ShowsChapter(0)
    \/ /\ ~IsNull(before.param)
       /\ \E i \in ChapterIndices : NumEq(IndexBefore, i - 1) /\ ShowsChapter(i)

C20_NoAutoplayInIntro ==
  (timers # {} \/ ~IsNull(intervalId))
    => (detailActive /\ ~introActive /\ Resolves(param))

\* C20 witness: the back click fell through to resetToIntro() while autoplay
\* was running, and the timer is gone.
C20_Witness ==
  /\ lastEvent = "back"
  /\ before.timers # {}
  /\ before.detailActive
  /\ introActive
  /\ IsNull(param)
  /\ NoTimer

\* C14: autoplay left alone runs to the last chapter and stops there. Stated
\* on the single tick, which is what makes the run terminate under fair
\* ticks: a tick in detail state before the last index advances the current
\* index by exactly one, and a tick that leaves the current index at or past
\* the last index leaves no timer behind.
C14_TickAdvancesThenStops ==
  (lastEvent = "tick" /\ before.detailActive /\ Resolves(before.param)) =>
    /\ \A i \in 0..(LastIndex - 1) :
         NumEq(IndexBefore, i) => NumEq(CurrentIndex, i + 1)
    /\ NumGe(CurrentIndex, LastIndex) => NoTimer

\* C17: in the title-keyed module, under every interleaving of play clicks,
\* forward and back clicks, icon-load completions and ticks, at most one
\* repeating timer is registered and a registered timer is the one whose
\* handle intervalId holds.
C17_OneTimerAcrossAwaits ==
  /\ Cardinality(timers) <= 1
  /\ \A h \in timers : intervalId = Some(h)

\* C17 witness: two play clicks were awaiting their icon when the first of
\* them resumed and registered the timer.
C17_Witness ==
  /\ lastEvent = "startIconLoaded"
  /\ before.pending.start = 2
  /\ IsNull(before.intervalId)
  /\ pending.start = 1
  /\ ~IsNull(intervalId)
  /\ timers = {Val(intervalId)}

====
